---- MODULE Spec2Model ----
(***************************************************************************)
(* Admission control and usage accounting of the AI proxy function         *)
(* (src/.netlify/functions/ai-proxy.js, first handler, lines 1-235).       *)
(*                                                                         *)
(* One Node process: the handler runs on the event loop, so everything     *)
(* between two awaits is one atomic step.  A POST runs from its entry to   *)
(* the `await fetch` (or to its return) in one step; the two awaits        *)
(* (fetch, response.json) are the only places where other requests         *)
(* interleave.  Date.now() is the variable clock, in milliseconds.         *)
(***************************************************************************)
EXTENDS Integers, Sequences, FiniteSets, TLC

VARIABLES
    requestCounts,  \* ai-proxy.js:11  ip -> period -> array of timestamps
    usageStats,     \* ai-proxy.js:12  totalRequests, uniqueIPs, startTime, errors, rateLimitHits
    clock,          \* Date.now()
    pending,        \* requests suspended at an await: <<ip, "fetch" | "json">> -> how many
    event,          \* what the last step did and answered
    admitted,       \* history: ip -> the timestamps checkRateLimit admitted
    lastDecision,   \* history: ip -> the last result of checkRateLimit for ip, and the one before
    unswept         \* history: requestCounts of the same calls of checkRateLimit without any sweep

vars == <<requestCounts, usageStats, clock, pending, event, admitted, lastDecision,
          unswept>>

----------------------------------------------------------------------------
(* Bounds of the model.  The tiers of the main specification are the       *)
(* source's three tiers scaled down (max 10/50/200 per 60/3600/86400 s):   *)
(* same order, same strict growth of max and window.                       *)

MinuteMax == 2
MinuteWindowSec == 1
HourMax == 3
HourWindowSec == 3
DayMax == 4
DayWindowSec == 4
CleanupEvery == 2
MaxPosts == 5
MaxClockSec == 7
AsyncClockSec == 4
MaxInFlight == 1
MaxUnknownPosts == 1
RealPosts == 11

(* Program constants. *)
MsPerSec == 1000
MaxPromptLength == 500
MaxHistoryLength == 10

----------------------------------------------------------------------------
(* RATE_LIMITS: Object.entries order is minute, hour, day. *)

\* RATE_LIMITS with the windows left in seconds
RateLimitsInSeconds ==
    << [period |-> "minute", max |-> 10,  window |-> 60],
       [period |-> "hour",   max |-> 50,  window |-> 60 * 60],
       [period |-> "day",    max |-> 200, window |-> 24 * 60 * 60] >>

RATE_LIMITS ==
    << [period |-> "minute", max |-> 10,  window |-> 60 * 1000],
       [period |-> "hour",   max |-> 50,  window |-> 60 * 60 * 1000],
       [period |-> "day",    max |-> 200, window |-> 24 * 60 * 60 * 1000] >>

ScaledLimits ==
    << [period |-> "minute", max |-> MinuteMax, window |-> MinuteWindowSec * MsPerSec],
       [period |-> "hour",   max |-> HourMax,   window |-> HourWindowSec * MsPerSec],
       [period |-> "day",    max |-> DayMax,    window |-> DayWindowSec * MsPerSec] >>

Periods == {"minute", "hour", "day"}

\* {} : an object without keys
EmptyObject == [x \in {} |-> 0]

TierOf(L, period) == CHOOSE i \in 1..Len(L) : L[i].period = period

RECURSIVE MaxOver(_, _)
MaxOver(L, i) ==
    IF i > Len(L) THEN 0
    ELSE LET rest == MaxOver(L, i + 1)
         IN IF L[i].window > rest THEN L[i].window ELSE rest

\* maxWindow taking the window of the first tier
firstWindow(L) == L[1].window

\* Math.max(...Object.values(RATE_LIMITS).map(r => r.window))
maxWindow(L) == MaxOver(L, 1)

----------------------------------------------------------------------------
(* The filter predicate of both prunes: timestamp => now - timestamp < w *)

InWindowLE(now, timestamp, window) == now - timestamp <= window

InWindow(now, timestamp, window) == now - timestamp < window

\* Filter that drops nothing
FilterKeepAll(arr, now, window) == arr

Filter(arr, now, window) ==
    SelectSeq(arr, LAMBDA timestamp : InWindow(now, timestamp, window))

\* cleanupOldEntries testing for empty arrays before it filters them
cleanupCheckFirst(L, counts, now) ==
    LET kept == {ip \in DOMAIN counts :
                    ~(\A p \in DOMAIN counts[ip] : Len(counts[ip][p]) = 0)}
    IN [ip \in kept |->
          [p \in DOMAIN counts[ip] |-> Filter(counts[ip][p], now, maxWindow(L))]]

\* cleanupOldEntries(): every array of every ip is filtered with maxWindow,
\* then an ip whose arrays are all empty is deleted.
cleanupOldEntries(L, counts, now) ==
    LET pruned == [ip \in DOMAIN counts |->
                     [p \in DOMAIN counts[ip] |->
                        Filter(counts[ip][p], now, maxWindow(L))]]
        kept == {ip \in DOMAIN counts :
                    ~(\A p \in DOMAIN pruned[ip] : Len(pruned[ip][p]) = 0)}
    IN [ip \in kept |-> pruned[ip]]

\* CheckTiers with the limit test written > instead of >=
RECURSIVE CheckTiersGT(_, _, _, _)
CheckTiersGT(L, entry, i, now) ==
    IF i > Len(L) THEN [entry |-> entry, denied |-> 0]
    ELSE LET p == L[i].period
             old == IF p \in DOMAIN entry THEN entry[p] ELSE << >>
             new == Filter(old, now, L[i].window)
             e2 == [q \in DOMAIN entry \cup {p} |-> IF q = p THEN new ELSE entry[q]]
         IN IF Len(new) > L[i].max
               THEN [entry |-> e2, denied |-> i]
               ELSE CheckTiersGT(L, e2, i + 1, now)

\* CheckTiers recording the request in each tier as soon as the tier passes
RECURSIVE CheckTiersEager(_, _, _, _)
CheckTiersEager(L, entry, i, now) ==
    IF i > Len(L)
       THEN [entry |-> [p \in DOMAIN entry |-> SubSeq(entry[p], 1, Len(entry[p]) - 1)],
             denied |-> 0]
    ELSE LET p == L[i].period
             old == IF p \in DOMAIN entry THEN entry[p] ELSE << >>
             new == Filter(old, now, L[i].window)
             e2 == [q \in DOMAIN entry \cup {p} |-> IF q = p THEN new ELSE entry[q]]
             e3 == [e2 EXCEPT ![p] = Append(@, now)]
         IN IF Len(new) >= L[i].max
               THEN [entry |-> e2, denied |-> i]
               ELSE CheckTiersEager(L, e3, i + 1, now)

\* CheckTiers testing the limit on the array as it was before the prune
RECURSIVE CheckTiersStale(_, _, _, _)
CheckTiersStale(L, entry, i, now) ==
    IF i > Len(L) THEN [entry |-> entry, denied |-> 0]
    ELSE LET p == L[i].period
             old == IF p \in DOMAIN entry THEN entry[p] ELSE << >>
             new == Filter(old, now, L[i].window)
             e2 == [q \in DOMAIN entry \cup {p} |-> IF q = p THEN new ELSE entry[q]]
         IN IF Len(old) >= L[i].max
               THEN [entry |-> e2, denied |-> i]
               ELSE CheckTiersStale(L, e2, i + 1, now)

\* The first loop of checkRateLimit from tier i on: the entry of the ip as
\* left by the loop, and the tier that denied (0: none).
RECURSIVE CheckTiers(_, _, _, _)
CheckTiers(L, entry, i, now) ==
    IF i > Len(L) THEN [entry |-> entry, denied |-> 0]
    ELSE LET p == L[i].period
             old == IF p \in DOMAIN entry THEN entry[p] ELSE << >>
             new == Filter(old, now, L[i].window)
             e2 == [q \in DOMAIN entry \cup {p} |-> IF q = p THEN new ELSE entry[q]]
         IN IF Len(new) >= L[i].max
               THEN [entry |-> e2, denied |-> i]
               ELSE CheckTiers(L, e2, i + 1, now)

\* checkRateLimit(ip): the result and requestCounts as the call leaves it.
checkRateLimit(L, counts, ip, now) ==
    LET entry == IF ip \in DOMAIN counts THEN counts[ip] ELSE EmptyObject
        r == CheckTiers(L, entry, 1, now)
        put(e) == [x \in DOMAIN counts \cup {ip} |-> IF x = ip THEN e ELSE counts[x]]
    IN IF r.denied # 0
          THEN [allowed |-> FALSE, period |-> L[r.denied].period,
                limit |-> L[r.denied].max, counts |-> put(r.entry)]
          ELSE [allowed |-> TRUE, period |-> "", limit |-> 0,
                counts |-> put([p \in DOMAIN r.entry |-> Append(r.entry[p], now)])]

\* logUsage keeping only the last ip it saw
logUsageLastIP(stats, ip, success) ==
    [stats EXCEPT !.totalRequests = @ + 1,
                  !.uniqueIPs = {ip},
                  !.errors = IF success THEN @ ELSE @ + 1]

\* logUsage counting a request only when it succeeded
logUsageNoCount(stats, ip, success) ==
    [stats EXCEPT !.totalRequests = IF success THEN @ + 1 ELSE @,
                  !.uniqueIPs = @ \cup {ip},
                  !.errors = IF success THEN @ ELSE @ + 1]

\* logUsage(ip, userAgent, prompt, success): the console line changes no state.
logUsage(stats, ip, success) ==
    [stats EXCEPT !.totalRequests = @ + 1,
                  !.uniqueIPs = @ \cup {ip},
                  !.errors = IF success THEN @ ELSE @ + 1]

\* Math.round(num / den), den > 0, num >= 0
Round(num, den) == (2 * num + den) \div (2 * den)

\* getUsageStats(): numbers with one decimal are kept in tenths; a division
\* by an uptime of 0 gives NaN (0/0) or Infinity (n/0), which Math.round
\* and the division by 10 leave as they are.
getUsageStats(stats, counts, now) ==
    LET uptimeMs == now - stats.startTime
        hourMs == 1000 * 60 * 60
    IN [totalRequests |-> stats.totalRequests,
        uniqueIPs |-> Cardinality(stats.uniqueIPs),
        errors |-> stats.errors,
        rateLimitHits |-> stats.rateLimitHits,
        uptimeHoursTenths |-> Round(uptimeMs * 10, hourMs),
        requestsPerHour |->
            IF uptimeMs = 0
               THEN [is |-> IF stats.totalRequests = 0 THEN "NaN" ELSE "Infinity",
                     tenths |-> 0]
               ELSE [is |-> "finite",
                     tenths |-> Round(stats.totalRequests * hourMs * 10, uptimeMs)],
        activeIPs |-> Cardinality(DOMAIN counts)]

----------------------------------------------------------------------------
(* Inputs of a request. *)

Missing == ""

\* event.headers: the three address headers ("" : header not sent)
HeaderSets ==
    { [xff |-> "1.2.3.4", cip |-> Missing,   xrip |-> Missing],
      [xff |-> Missing,   cip |-> "1.2.3.4", xrip |-> "5.6.7.8"],
      [xff |-> Missing,   cip |-> Missing,   xrip |-> "1.2.3.4"],
      [xff |-> Missing,   cip |-> Missing,   xrip |-> Missing] }

\* event.headers['x-forwarded-for'] || ['client-ip'] || ['x-real-ip'] || 'unknown'
ExtractIp(h) ==
    IF h.xff # Missing THEN h.xff
    ELSE IF h.cip # Missing THEN h.cip
    ELSE IF h.xrip # Missing THEN h.xrip
    ELSE "unknown"

IPs == {ExtractIp(h) : h \in HeaderSets}

\* event.body: text JSON.parse rejects, or the parsed object.  prompt is
\* absent, a non-string, or a string of a length; conversation is absent or
\* an object whose two fields are arrays of a length (-1: not an array).
NotArray == -1

Body(promptKind, promptLen, hasConv, pastLen, genLen) ==
    [parses |-> TRUE, promptKind |-> promptKind, promptLen |-> promptLen,
     hasConv |-> hasConv, pastLen |-> pastLen, genLen |-> genLen]

Bodies ==
    { [parses |-> FALSE, promptKind |-> "absent", promptLen |-> 0,
       hasConv |-> FALSE, pastLen |-> 0, genLen |-> 0],
      Body("absent", 0, FALSE, 0, 0),
      Body("number", 0, FALSE, 0, 0),
      Body("string", 0, FALSE, 0, 0),
      Body("string", MaxPromptLength, FALSE, 0, 0),
      Body("string", MaxPromptLength + 1, FALSE, 0, 0),
      Body("string", MaxPromptLength + 1, TRUE, MaxHistoryLength + 1, 0),
      Body("string", 1, TRUE, MaxHistoryLength, MaxHistoryLength),
      Body("string", 1, TRUE, MaxHistoryLength + 1, 0),
      Body("string", 1, TRUE, 0, MaxHistoryLength + 1),
      Body("string", 1, TRUE, NotArray, 0) }

\* Lines 166-195: what the try block does with the body up to the fetch.
Validate(body, apiKey) ==
    IF ~body.parses
       THEN [outcome |-> "throw", status |-> 500, error |-> "Internal server error"]
    ELSE IF body.promptKind # "string" \/ body.promptLen = 0
       THEN [outcome |-> "invalid", status |-> 400, error |-> "Invalid or missing prompt"]
    ELSE IF body.promptLen > MaxPromptLength
       THEN [outcome |-> "invalid", status |-> 400,
             error |-> "Prompt too long (max 500 characters)"]
    ELSE IF body.hasConv /\ ( \/ body.pastLen = NotArray
                              \/ body.genLen = NotArray
                              \/ body.pastLen > MaxHistoryLength
                              \/ body.genLen > MaxHistoryLength )
       THEN [outcome |-> "invalid", status |-> 400, error |-> "Invalid conversation history"]
    ELSE IF ~apiKey
       THEN [outcome |-> "nokey", status |-> 500, error |-> "AI service not configured"]
    ELSE [outcome |-> "forward", status |-> 0, error |-> ""]

\* What the handler makes of each body, HUGGINGFACE_API_KEY being set or not.
Outcomes(apiKey) == {Validate(body, apiKey) : body \in Bodies}

----------------------------------------------------------------------------
(* Lines 143-209: a POST from the sweep to the return or to the fetch. *)

\* Line 144: usageStats.totalRequests % 100 === 0, the 100 scaled to CleanupEvery
SweepDue(stats) == stats.totalRequests % CleanupEvery = 0

\* retryAfter without the division
retryAfterMs(L, period) == L[TierOf(L, period)].window

\* Line 160: RATE_LIMITS[period].window / 1000
retryAfter(L, period) == L[TierOf(L, period)].window \div 1000

Response(status, error, retryAfterSec, period, limit) ==
    [status |-> status, error |-> error, retryAfter |-> retryAfterSec,
     period |-> period, limit |-> limit]

\* handlePost validating the body before it consults the rate limiter
handlePostValidateFirst(L, counts, stats, ip, v, now) ==
    LET sweep == SweepDue(stats)
        swept == IF sweep THEN cleanupOldEntries(L, counts, now) ELSE counts
        rl == checkRateLimit(L, swept, ip, now)
        pre == <<"identity">> \o (IF sweep THEN <<"sweep">> ELSE << >>)
    IN IF v.outcome # "forward"
          THEN [counts |-> swept, stats |-> logUsage(stats, ip, FALSE),
                allowed |-> FALSE, forward |-> FALSE,
                response |-> Response(v.status, v.error, 0, "", 0),
                steps |-> pre \o <<"validate", "log">>]
       ELSE IF ~rl.allowed
          THEN [counts |-> rl.counts,
                stats |-> [stats EXCEPT !.rateLimitHits = @ + 1],
                allowed |-> FALSE, forward |-> FALSE,
                response |-> Response(429, "Rate limit exceeded",
                                      retryAfter(L, rl.period), rl.period, rl.limit),
                steps |-> pre \o <<"validate", "ratelimit">>]
          ELSE [counts |-> rl.counts, stats |-> stats,
                allowed |-> TRUE, forward |-> TRUE,
                response |-> Response(0, "", 0, "", 0),
                steps |-> pre \o <<"validate", "ratelimit", "forward">>]

\* handlePost without the return in the denial branch
handlePostNoReturn(L, counts, stats, ip, v, now) ==
    LET sweep == SweepDue(stats)
        swept == IF sweep THEN cleanupOldEntries(L, counts, now) ELSE counts
        rl == checkRateLimit(L, swept, ip, now)
        hit == IF rl.allowed THEN stats ELSE [stats EXCEPT !.rateLimitHits = @ + 1]
        pre == <<"identity">> \o (IF sweep THEN <<"sweep">> ELSE << >>) \o <<"ratelimit">>
    IN IF v.outcome = "forward"
          THEN [counts |-> rl.counts, stats |-> hit,
                allowed |-> rl.allowed, forward |-> TRUE,
                response |-> Response(0, "", 0, "", 0),
                steps |-> pre \o <<"validate", "forward">>]
          ELSE [counts |-> rl.counts, stats |-> logUsage(hit, ip, FALSE),
                allowed |-> rl.allowed, forward |-> FALSE,
                response |-> Response(v.status, v.error, 0, "", 0),
                steps |-> pre \o <<"validate", "log">>]

\* The handler on a POST of identity ip whose body comes to v, at time now:
\* the two globals as it leaves them, the limiter's decision, the response
\* (status 0: none yet, the request awaits the fetch) and the steps it ran.
handlePost(L, counts, stats, ip, v, now) ==
    LET sweep == SweepDue(stats)
        swept == IF sweep THEN cleanupOldEntries(L, counts, now) ELSE counts
        rl == checkRateLimit(L, swept, ip, now)
        pre == <<"identity">> \o (IF sweep THEN <<"sweep">> ELSE << >>) \o <<"ratelimit">>
    IN IF ~rl.allowed
          THEN [counts |-> rl.counts,
                stats |-> [stats EXCEPT !.rateLimitHits = @ + 1],
                allowed |-> FALSE, forward |-> FALSE,
                response |-> Response(429, "Rate limit exceeded",
                                      retryAfter(L, rl.period), rl.period, rl.limit),
                steps |-> pre]
       ELSE IF v.outcome = "forward"
          THEN [counts |-> rl.counts, stats |-> stats,
                allowed |-> TRUE, forward |-> TRUE,
                response |-> Response(0, "", 0, "", 0),
                steps |-> pre \o <<"validate", "forward">>]
          ELSE [counts |-> rl.counts, stats |-> logUsage(stats, ip, FALSE),
                allowed |-> TRUE, forward |-> FALSE,
                response |-> Response(v.status, v.error, 0, "", 0),
                steps |-> pre \o <<"validate", "log">>]

----------------------------------------------------------------------------
(* The state machine. *)

PendKeys == IPs \X {"fetch", "json"}

RECURSIVE SumOver(_, _)
SumOver(f, S) ==
    IF S = {} THEN 0
    ELSE LET x == CHOOSE y \in S : TRUE IN f[x] + SumOver(f, S \ {x})

PendingCount == SumOver(pending, PendKeys)

\* POST requests that reached the rate limiter so far
PostsSoFar == usageStats.totalRequests + usageStats.rateLimitHits + PendingCount

NoResponse == Response(0, "", 0, "", 0)

\* The body of an answer that is not the statistics
NoStats == [totalRequests |-> 0, uniqueIPs |-> 0, errors |-> 0, rateLimitHits |-> 0,
            uptimeHoursTenths |-> 0, requestsPerHour |-> [is |-> "finite", tenths |-> 0],
            activeIPs |-> 0]

Event(kind, ip, response, steps) ==
    [kind |-> kind, ip |-> ip, status |-> response.status, error |-> response.error,
     retryAfter |-> response.retryAfter, period |-> response.period,
     limit |-> response.limit, steps |-> steps, stats |-> NoStats]

NoDecision == [t |-> -1, allowed |-> TRUE, period |-> "",
               prevT |-> -1, prevAllowed |-> TRUE, prevPeriod |-> ""]

\* The configuration a specification runs the handler with: the tiers, the
\* step and the end of the clock, the number of POSTs, how many POSTs each
\* identity gets admitted, and whether process.env.HUGGINGFACE_API_KEY is set.
Scaled == [limits |-> ScaledLimits, tickMs |-> MsPerSec,
           maxClock |-> AsyncClockSec * MsPerSec, maxPosts |-> MaxPosts,
           cap |-> [ip \in IPs |-> IF ip = "unknown" THEN 0 ELSE MaxPosts],
           apiKey |-> TRUE]

NoKey == [limits |-> ScaledLimits, tickMs |-> MsPerSec,
          maxClock |-> MaxClockSec * MsPerSec, maxPosts |-> MaxPosts,
          cap |-> [ip \in IPs |-> IF ip = "unknown" THEN MaxUnknownPosts ELSE MaxPosts],
          apiKey |-> FALSE]

Solo == [limits |-> ScaledLimits, tickMs |-> MsPerSec,
         maxClock |-> MaxClockSec * MsPerSec, maxPosts |-> MaxPosts + 1,
         cap |-> [ip \in IPs |-> IF ip = "unknown" THEN 0 ELSE MaxPosts + 1],
         apiKey |-> FALSE]

\* Scaled with two POSTs less, and the same with
\* process.env.HUGGINGFACE_API_KEY unset at line 191
KeySet == [Scaled EXCEPT !.maxPosts = MaxPosts - 2]

KeyUnset == [KeySet EXCEPT !.apiKey = FALSE]

\* Scaled for two clients and two POSTs less
TwoClients == [Scaled EXCEPT !.maxPosts = MaxPosts - 2,
                             !.cap = [ip \in IPs |-> IF ip = "unknown"
                                                       THEN MaxUnknownPosts
                                                       ELSE MaxPosts]]

Real == [limits |-> RATE_LIMITS, tickMs |-> MsPerSec - 1,
         maxClock |-> MsPerSec - 1, maxPosts |-> RealPosts,
         cap |-> [ip \in IPs |-> IF ip = "unknown" THEN 0 ELSE RealPosts],
         apiKey |-> TRUE]

Init ==
    /\ requestCounts = EmptyObject
    /\ usageStats = [totalRequests |-> 0, uniqueIPs |-> {}, startTime |-> 0,
                     errors |-> 0, rateLimitHits |-> 0]
    /\ clock = 0
    /\ pending = [k \in PendKeys |-> 0]
    /\ event = Event("start", "", NoResponse, << >>)
    /\ admitted = [ip \in IPs |-> << >>]
    /\ lastDecision = [ip \in IPs |-> NoDecision]
    /\ unswept = EmptyObject

\* Time passes between two steps of the event loop.
Tick(c) ==
    /\ clock + c.tickMs <= c.maxClock
    /\ clock' = clock + c.tickMs
    /\ event' = Event("tick", "", NoResponse, << >>)
    /\ UNCHANGED <<requestCounts, usageStats, pending, admitted, lastDecision, unswept>>

\* HandleOther logging the request it answers with 405
HandleOtherCounted ==
    /\ \E method \in {"OPTIONS", "GET", "PUT"}, statsPath \in BOOLEAN :
         IF method = "OPTIONS"
            THEN /\ event' = Event("other", "", Response(200, "", 0, "", 0), <<"options">>)
                 /\ UNCHANGED usageStats
         ELSE IF method = "GET" /\ statsPath
            THEN /\ event' = [Event("other", "", Response(200, "", 0, "", 0), <<"stats">>)
                                EXCEPT !.stats = getUsageStats(usageStats, requestCounts, clock)]
                 /\ UNCHANGED usageStats
         ELSE /\ event' = Event("other", "", Response(405, "Method not allowed", 0, "", 0),
                                <<"method">>)
              /\ usageStats' = logUsage(usageStats, "unknown", FALSE)
    /\ UNCHANGED <<requestCounts, clock, pending, admitted, lastDecision, unswept>>

\* Lines 116-134: OPTIONS, GET .../stats, and every other method but POST.
\* The body of the stats answer is getUsageStats() of the state.
HandleOther ==
    /\ \E method \in {"OPTIONS", "GET", "PUT"}, statsPath \in BOOLEAN :
         event' =
            IF method = "OPTIONS"
               THEN Event("other", "", Response(200, "", 0, "", 0), <<"options">>)
            ELSE IF method = "GET" /\ statsPath
               THEN [Event("other", "", Response(200, "", 0, "", 0), <<"stats">>)
                        EXCEPT !.stats = getUsageStats(usageStats, requestCounts, clock)]
            ELSE Event("other", "", Response(405, "Method not allowed", 0, "", 0),
                       <<"method">>)
    /\ UNCHANGED <<requestCounts, usageStats, clock, pending, admitted, lastDecision,
                   unswept>>

\* Lines 122 and 137, outside the try block: a GET whose event has no path
\* (event.path.includes) and a POST whose event has no headers
\* (event.headers['x-forwarded-for']) raise a TypeError that leaves the
\* handler: its promise rejects and no response is built.
HandleMalformed ==
    /\ \E method \in {"GET", "POST"} :
         event' = Event("throw", "", NoResponse,
                        IF method = "GET" THEN <<"stats">> ELSE <<"identity">>)
    /\ UNCHANGED <<requestCounts, usageStats, clock, pending, admitted, lastDecision,
                   unswept>>

\* Lines 136-209 of a POST: one run of the handler up to its return or to
\* the await of fetch.
HandlePost(c) ==
    /\ PostsSoFar < c.maxPosts
    /\ \E ip \in {ExtractIp(h) : h \in HeaderSets}, v \in Outcomes(c.apiKey) :
         /\ Len(admitted[ip]) < c.cap[ip]
         /\ \E r \in {handlePost(c.limits, requestCounts, usageStats, ip, v, clock)} :
              /\ r.forward => PendingCount < MaxInFlight
              /\ requestCounts' = r.counts
              /\ usageStats' = r.stats
              /\ pending' = IF r.forward
                               THEN [pending EXCEPT ![<<ip, "fetch">>] = @ + 1]
                               ELSE pending
              /\ event' = Event("post", ip, r.response, r.steps)
              /\ admitted' = IF r.allowed
                                THEN [admitted EXCEPT ![ip] = Append(@, clock)]
                                ELSE admitted
              /\ lastDecision' = [lastDecision EXCEPT ![ip] =
                                    [t |-> clock, allowed |-> r.allowed,
                                     period |-> r.response.period,
                                     prevT |-> @.t, prevAllowed |-> @.allowed,
                                     prevPeriod |-> @.period]]
              /\ unswept' = checkRateLimit(c.limits, unswept, ip, clock).counts
              /\ UNCHANGED clock

\* FetchSettles giving the slot back when the fetch fails
FetchSettlesRefund ==
    \E ip \in IPs, ok \in BOOLEAN :
      /\ pending[<<ip, "fetch">>] > 0
      /\ IF ok
            THEN /\ pending' = [pending EXCEPT ![<<ip, "fetch">>] = @ - 1,
                                               ![<<ip, "json">>] = @ + 1]
                 /\ event' = Event("resume", ip, NoResponse, <<"fetched">>)
                 /\ UNCHANGED <<usageStats, requestCounts>>
            ELSE /\ pending' = [pending EXCEPT ![<<ip, "fetch">>] = @ - 1]
                 /\ usageStats' = logUsage(usageStats, ip, FALSE)
                 /\ requestCounts' =
                       [x \in DOMAIN requestCounts |->
                          IF x # ip THEN requestCounts[x]
                          ELSE [p \in DOMAIN requestCounts[x] |->
                                  SubSeq(requestCounts[x][p], 1,
                                         Len(requestCounts[x][p]) - 1)]]
                 /\ event' = Event("resume", ip,
                                   Response(500, "Internal server error", 0, "", 0),
                                   <<"catch", "log">>)
      /\ UNCHANGED <<clock, admitted, lastDecision, unswept>>

\* Lines 209-218: the fetch settles.  A rejection (network error, timeout)
\* lands in the catch block.
FetchSettles ==
    \E ip \in IPs, ok \in BOOLEAN :
      /\ pending[<<ip, "fetch">>] > 0
      /\ IF ok
            THEN /\ pending' = [pending EXCEPT ![<<ip, "fetch">>] = @ - 1,
                                               ![<<ip, "json">>] = @ + 1]
                 /\ event' = Event("resume", ip, NoResponse, <<"fetched">>)
                 /\ UNCHANGED usageStats
            ELSE /\ pending' = [pending EXCEPT ![<<ip, "fetch">>] = @ - 1]
                 /\ usageStats' = logUsage(usageStats, ip, FALSE)
                 /\ event' = Event("resume", ip,
                                   Response(500, "Internal server error", 0, "", 0),
                                   <<"catch", "log">>)
      /\ UNCHANGED <<requestCounts, clock, admitted, lastDecision, unswept>>

\* JsonSettles without the logUsage of the error payload branch
JsonSettlesUnlogged ==
    \E ip \in IPs, data \in {"error", "ok", "reject"} :
      /\ pending[<<ip, "json">>] > 0
      /\ pending' = [pending EXCEPT ![<<ip, "json">>] = @ - 1]
      /\ usageStats' = IF data = "error" THEN usageStats
                                         ELSE logUsage(usageStats, ip, data = "ok")
      /\ event' =
           IF data = "error"
              THEN Event("resume", ip, Response(502, "AI service error", 0, "", 0),
                         << >>)
           ELSE IF data = "ok"
              THEN Event("resume", ip, Response(200, "", 0, "", 0), <<"log">>)
           ELSE Event("resume", ip, Response(500, "Internal server error", 0, "", 0),
                      <<"catch", "log">>)
      /\ UNCHANGED <<requestCounts, clock, admitted, lastDecision, unswept>>

\* Lines 218-234: response.json() settles: an error payload, a payload, or
\* a rejection (a body that is not JSON).
JsonSettles ==
    \E ip \in IPs, data \in {"error", "ok", "reject"} :
      /\ pending[<<ip, "json">>] > 0
      /\ pending' = [pending EXCEPT ![<<ip, "json">>] = @ - 1]
      /\ usageStats' = logUsage(usageStats, ip, data = "ok")
      /\ event' =
           IF data = "error"
              THEN Event("resume", ip, Response(502, "AI service error", 0, "", 0),
                         <<"log">>)
           ELSE IF data = "ok"
              THEN Event("resume", ip, Response(200, "", 0, "", 0), <<"log">>)
           ELSE Event("resume", ip, Response(500, "Internal server error", 0, "", 0),
                      <<"catch", "log">>)
      /\ UNCHANGED <<requestCounts, clock, admitted, lastDecision, unswept>>

\* The process with the key set: every operation, scaled tiers.
Next ==
    \/ Tick(Scaled)
    \/ HandleOther
    \/ HandlePost(Scaled)
    \/ FetchSettles
    \/ JsonSettles

Spec == Init /\ [][Next]_vars

\* The process without HUGGINGFACE_API_KEY: no POST reaches the fetch, so
\* every admitted POST is logged in the step that admits it.
NextNoKey ==
    \/ Tick(NoKey)
    \/ HandlePost(NoKey)

SpecNoKey == Init /\ [][NextNoKey]_vars

\* The process without the key serving one client, for as long as two day
\* windows less one tick.
NextSolo ==
    \/ Tick(Solo)
    \/ HandlePost(Solo)

SpecSolo == Init /\ [][NextSolo]_vars

\* The process as the platform may call it: the key is read at each request
\* (line 191) and may be set or not, and an event may lack its headers or
\* its path.
NextEnv ==
    \/ Tick(Scaled)
    \/ HandleOther
    \/ HandleMalformed
    \/ HandlePost(KeySet)
    \/ HandlePost(KeyUnset)
    \/ FetchSettles
    \/ JsonSettles

SpecEnv == Init /\ [][NextEnv]_vars

\* The process with the key set serving two clients, one of them without
\* address headers.
NextTwo ==
    \/ Tick(TwoClients)
    \/ HandlePost(TwoClients)
    \/ FetchSettles
    \/ JsonSettles

SpecTwo == Init /\ [][NextTwo]_vars

\* The process with the source's RATE_LIMITS, within one second.
NextReal ==
    \/ Tick(Real)
    \/ HandleOther
    \/ HandlePost(Real)
    \/ FetchSettles
    \/ JsonSettles

SpecReal == Init /\ [][NextReal]_vars

----------------------------------------------------------------------------
(* The process running for ever.  The handler reads Date.now() only in the *)
(* differences now - timestamp (lines 24-29, 46) and totalRequests, outside *)
(* getUsageStats, only in totalRequests % 100 (line 144).  So the state is *)
(* kept finite without changing what the handler does: time is measured    *)
(* from the present (when time passes the timestamps move back and the     *)
(* clock stays), a timestamp older than the longest window stays where it  *)
(* is, totalRequests is kept modulo the cadence of the sweep and the two   *)
(* other counters as none or some.  The history variables are not kept.    *)

\* The three tiers scaled down one step further than ScaledLimits
SmallLimits ==
    << [period |-> "minute", max |-> MinuteMax - 1, window |-> MinuteWindowSec * MsPerSec],
       [period |-> "hour",   max |-> HourMax - 1,   window |-> (HourWindowSec - 1) * MsPerSec],
       [period |-> "day",    max |-> DayMax - 1,    window |-> (DayWindowSec - 1) * MsPerSec] >>

\* These tiers, the key set, and a client without address headers that sends
\* one request
Forever == [limits |-> SmallLimits, tickMs |-> MsPerSec, apiKey |-> TRUE,
            once |-> {"unknown"}]

\* The timestamps of counts after d ms have passed, none going back further
\* than 1 ms beyond the longest window
Aged(L, counts, now, d) ==
    [x \in DOMAIN counts |->
       [p \in DOMAIN counts[x] |->
          [k \in 1..Len(counts[x][p]) |->
             IF counts[x][p][k] - d < now - maxWindow(L) - 1
                THEN now - maxWindow(L) - 1
                ELSE counts[x][p][k] - d]]]

\* usageStats with totalRequests modulo the cadence of the sweep, and the
\* two other counters as none or some
Fold(stats) ==
    [stats EXCEPT !.totalRequests = @ % CleanupEvery,
                  !.errors = IF @ = 0 THEN 0 ELSE 1,
                  !.rateLimitHits = IF @ = 0 THEN 0 ELSE 1]

\* Time passes between two steps of the event loop, without an end.
TickLive(c) ==
    /\ requestCounts' = Aged(c.limits, requestCounts, clock, c.tickMs)
    /\ usageStats' = [usageStats EXCEPT !.startTime =
                         IF @ - c.tickMs < clock - maxWindow(c.limits) - 1
                            THEN clock - maxWindow(c.limits) - 1
                            ELSE @ - c.tickMs]
    /\ event' = Event("tick", "", NoResponse, << >>)
    /\ UNCHANGED <<clock, pending, admitted, lastDecision, unswept>>

\* Lines 136-209 of a POST, as HandlePost, without an end to the POSTs.  An
\* identity of c.once sends one request and no further.
HandlePostLive(c) ==
    \E ip \in {ExtractIp(h) : h \in HeaderSets}, v \in Outcomes(c.apiKey) :
       /\ ip \in c.once =>
             /\ ip \notin DOMAIN requestCounts
             /\ ip \notin usageStats.uniqueIPs
             /\ pending[<<ip, "fetch">>] + pending[<<ip, "json">>] = 0
       /\ \E r \in {handlePost(c.limits, requestCounts, usageStats, ip, v, clock)} :
          /\ r.forward => PendingCount < MaxInFlight
          /\ requestCounts' = r.counts
          /\ usageStats' = Fold(r.stats)
          /\ pending' = IF r.forward
                           THEN [pending EXCEPT ![<<ip, "fetch">>] = @ + 1]
                           ELSE pending
          /\ event' = Event("post", ip, r.response, r.steps)
          /\ UNCHANGED <<clock, admitted, lastDecision, unswept>>

\* Lines 209-218, as FetchSettles.
FetchSettlesLive ==
    \E ip \in IPs, ok \in BOOLEAN :
      /\ pending[<<ip, "fetch">>] > 0
      /\ IF ok
            THEN /\ pending' = [pending EXCEPT ![<<ip, "fetch">>] = @ - 1,
                                               ![<<ip, "json">>] = @ + 1]
                 /\ event' = Event("resume", ip, NoResponse, <<"fetched">>)
                 /\ UNCHANGED usageStats
            ELSE /\ pending' = [pending EXCEPT ![<<ip, "fetch">>] = @ - 1]
                 /\ usageStats' = Fold(logUsage(usageStats, ip, FALSE))
                 /\ event' = Event("resume", ip,
                                   Response(500, "Internal server error", 0, "", 0),
                                   <<"catch", "log">>)
      /\ UNCHANGED <<requestCounts, clock, admitted, lastDecision, unswept>>

\* Lines 218-234, as JsonSettles.
JsonSettlesLive ==
    \E ip \in IPs, data \in {"error", "ok", "reject"} :
      /\ pending[<<ip, "json">>] > 0
      /\ pending' = [pending EXCEPT ![<<ip, "json">>] = @ - 1]
      /\ usageStats' = Fold(logUsage(usageStats, ip, data = "ok"))
      /\ event' =
           IF data = "error"
              THEN Event("resume", ip, Response(502, "AI service error", 0, "", 0),
                         <<"log">>)
           ELSE IF data = "ok"
              THEN Event("resume", ip, Response(200, "", 0, "", 0), <<"log">>)
           ELSE Event("resume", ip, Response(500, "Internal server error", 0, "", 0),
                      <<"catch", "log">>)
      /\ UNCHANGED <<requestCounts, clock, admitted, lastDecision, unswept>>

NextLive ==
    \/ TickLive(Forever)
    \/ HandlePostLive(Forever)
    \/ FetchSettlesLive
    \/ JsonSettlesLive

\* Time passes, and a promise the handler awaits settles: the event loop
\* then resumes the handler.  Nothing makes a client send a request.
SpecLive ==
    /\ Init
    /\ [][NextLive]_vars
    /\ WF_vars(TickLive(Forever))
    /\ WF_vars(FetchSettlesLive)
    /\ WF_vars(JsonSettlesLive)

----------------------------------------------------------------------------
(* Properties. *)

Limits == ScaledLimits

\* The admitted timestamps of seq inside the window that starts at t
CountFrom(seq, t, window) ==
    Cardinality({j \in 1..Len(seq) : seq[j] >= t /\ seq[j] - t < window})

\* The admitted timestamps of seq that a request at now still finds in its window
CountAt(seq, now, window) ==
    Cardinality({j \in 1..Len(seq) : now - seq[j] < window})

\* requestCounts as checkRateLimit finds it in a POST taken now
PreCall(L) ==
    IF SweepDue(usageStats) THEN cleanupOldEntries(L, requestCounts, clock)
                            ELSE requestCounts

SeqOf(counts, ip, p) ==
    IF ip \in DOMAIN counts /\ p \in DOMAIN counts[ip] THEN counts[ip][p] ELSE << >>

IsSuffix(s, t) ==
    Len(s) <= Len(t) /\ s = SubSeq(t, Len(t) - Len(s) + 1, Len(t))

InFlight(ip) == pending[<<ip, "fetch">>] + pending[<<ip, "json">>]

(* C1: whatever the interleaving of requests, for every identity and every *)
(* tier the admitted requests whose timestamps lie less than the tier's    *)
(* window apart never number more than the tier's max.                     *)
C1_WindowBound ==
    \A ip \in IPs : \A i \in 1..Len(Limits) : \A k \in 1..Len(admitted[ip]) :
        CountFrom(admitted[ip], admitted[ip][k], Limits[i].window) <= Limits[i].max

\* A request is denied while another request of the identity, admitted at
\* the same instant into the last slot, is still awaiting the downstream.
C1_Witness ==
    \E ip \in IPs :
        /\ InFlight(ip) > 0
        /\ event.kind = "post" /\ event.ip = ip /\ event.status = 429
        /\ Len(admitted[ip]) > 0
        /\ admitted[ip][Len(admitted[ip])] = clock
        /\ CountAt(admitted[ip], clock, Limits[TierOf(Limits, event.period)].window)
              = event.limit

(* C2: a denial by tier T appends no timestamp to any tier of the identity: *)
(* every sequence is a suffix of what the call found, the tiers after T    *)
(* are exactly what the call found, and no other identity is touched.      *)
C2_AllOrNothing ==
    [][ (event'.kind = "post" /\ event'.status = 429) =>
          \E pre \in {PreCall(Limits)} :
             /\ \A i \in 1..Len(Limits) :
                  /\ IsSuffix(SeqOf(requestCounts', event'.ip, Limits[i].period),
                              SeqOf(pre, event'.ip, Limits[i].period))
                  /\ i > TierOf(Limits, event'.period) =>
                        SeqOf(requestCounts', event'.ip, Limits[i].period)
                           = SeqOf(pre, event'.ip, Limits[i].period)
             /\ DOMAIN requestCounts' = DOMAIN pre
             /\ \A x \in DOMAIN pre \ {event'.ip} : requestCounts'[x] = pre[x]
      ]_vars

\* The hour tier denies a request the minute tier let pass.
C2_Witness ==
    /\ event.kind = "post" /\ event.status = 429 /\ event.period = "hour"
    /\ Len(SeqOf(requestCounts, event.ip, "minute")) < MinuteMax
    /\ Len(SeqOf(requestCounts, event.ip, "day")) > 0

\* The tiers that hold their max of admitted timestamps of ip inside the
\* window that ends now
TiersAtLimit(ip) ==
    {i \in 1..Len(Limits) :
        CountAt(admitted[ip], clock, Limits[i].window) >= Limits[i].max}

MinOf(S) == CHOOSE i \in S : \A j \in S : i <= j

Last(seq) == seq[Len(seq)]

Front(seq) == SubSeq(seq, 1, Len(seq) - 1)

\* The place of step x in steps (0: the step did not run)
Pos(steps, x) ==
    IF \E k \in 1..Len(steps) : steps[k] = x
       THEN CHOOSE k \in 1..Len(steps) : steps[k] = x
       ELSE 0

\* The step answers a POST with 400 for a prompt or a history that is too long
RejectedAsTooLong ==
    /\ event'.kind = "post" /\ event'.status = 400
    /\ event'.error \in {"Prompt too long (max 500 characters)",
                         "Invalid conversation history"}

(* C3 as stated: a POST answered 400 for a prompt over 500 characters or a *)
(* history over 10 entries leaves every tier's sequence of its identity    *)
(* as it was before the request arrived.                                   *)
C3_NoQuotaOnInvalid ==
    [][ RejectedAsTooLong =>
          \A p \in Periods :
             SeqOf(requestCounts', event'.ip, p) = SeqOf(requestCounts, event'.ip, p)
      ]_vars

(* C3 amended: a POST answered 400 by the validation was admitted by the   *)
(* rate limiter first and holds one slot of every tier: each sequence of   *)
(* its identity is a suffix of what the call found followed by the         *)
(* request's timestamp, and the request counts among the admitted ones.    *)
C3_InvalidTakesOneSlot ==
    [][ RejectedAsTooLong =>
          \E pre \in {PreCall(Limits)} :
             /\ \A p \in Periods :
                  \E s \in {SeqOf(requestCounts', event'.ip, p)} :
                     /\ Len(s) > 0
                     /\ Last(s) = clock
                     /\ IsSuffix(Front(s), SeqOf(pre, event'.ip, p))
             /\ admitted'[event'.ip] = Append(admitted[event'.ip], clock)
      ]_vars

\* A prompt of 501 characters was answered 400 and its timestamp is the last
\* of the three sequences.
C3_Witness ==
    /\ event.kind = "post" /\ event.status = 400
    /\ event.error = "Prompt too long (max 500 characters)"
    /\ \A p \in Periods :
          /\ Len(SeqOf(requestCounts, event.ip, p)) > 0
          /\ Last(SeqOf(requestCounts, event.ip, p)) = clock

(* C4: a POST runs identity, rate limit, validation, forward in this order; *)
(* validation runs only for an admitted request and the forward only for a *)
(* valid one; a request that finds a tier at its limit ends with 429, its  *)
(* payload not validated and nothing sent downstream, whatever the payload; *)
(* a request awaits the downstream only once it has been admitted.         *)
C4_Ordering ==
    [][ event'.kind = "post" =>
          \E ip \in {event'.ip}, s \in {event'.steps} :
             /\ s[1] = "identity"
             /\ Pos(s, "ratelimit") > 1
             /\ Pos(s, "validate") # 0 =>
                    /\ Pos(s, "validate") > Pos(s, "ratelimit")
                    /\ TiersAtLimit(ip) = {}
                    /\ admitted'[ip] = Append(admitted[ip], clock)
             /\ Pos(s, "forward") # 0 =>
                    /\ Pos(s, "validate") # 0
                    /\ Pos(s, "forward") > Pos(s, "validate")
             /\ pending' # pending <=> Pos(s, "forward") # 0
             /\ TiersAtLimit(ip) # {} =>
                    /\ event'.status = 429
                    /\ Pos(s, "validate") = 0 /\ Pos(s, "forward") = 0
                    /\ pending' = pending
                    /\ admitted' = admitted
                    /\ usageStats'.totalRequests = usageStats.totalRequests
      ]_vars

\* A request was denied with nothing awaiting the downstream: the handler
\* stopped at the rate limit.
C4_Witness ==
    /\ event.kind = "post" /\ event.status = 429
    /\ Pos(event.steps, "ratelimit") = Len(event.steps)
    /\ PendingCount = 0

(* C5 as stated: for every tier T, as long as no request was denied and    *)
(* all admitted requests lie inside T's window, a request is allowed while *)
(* fewer than T's max were admitted and the one after T's max is denied    *)
(* with tier T.                                                            *)
C5_EveryTierFillsToItsMax ==
    [][ event'.kind = "post" =>
          \E a \in {admitted[event'.ip]} :
             \A i \in 1..Len(Limits) :
                (/\ usageStats.rateLimitHits = 0
                 /\ \A k \in 1..Len(a) : clock - a[k] < Limits[i].window)
                => /\ Len(a) < Limits[i].max => event'.status # 429
                   /\ Len(a) = Limits[i].max =>
                         event'.status = 429 /\ event'.period = Limits[i].period
      ]_vars

(* C5 amended: a request is allowed exactly when no tier holds its max of  *)
(* admitted timestamps inside its window; for the minute tier the first    *)
(* max requests inside one window are all allowed and the next one is      *)
(* denied with tier minute; for every tier T the request that follows T's  *)
(* max admitted requests inside T's window is denied, with T or with a     *)
(* tier before T.                                                          *)
C5_FillThenDeny ==
    [][ event'.kind = "post" =>
          \E ip \in {event'.ip} :
             /\ TiersAtLimit(ip) = {} <=> event'.status # 429
             /\ Len(admitted[ip]) < Limits[1].max => event'.status # 429
             /\ (/\ Len(admitted[ip]) = Limits[1].max
                 /\ \A k \in 1..Len(admitted[ip]) :
                       clock - admitted[ip][k] < Limits[1].window)
                => event'.status = 429 /\ event'.period = Limits[1].period
             /\ \A i \in TiersAtLimit(ip) :
                   event'.status = 429 /\ TierOf(Limits, event'.period) <= i
      ]_vars

\* The first denial of the run is by the day tier, with the day's max
\* admitted inside one day window.
C5_Witness ==
    /\ event.kind = "post" /\ event.status = 429 /\ event.period = "day"
    /\ usageStats.rateLimitHits = 1
    /\ Len(admitted[event.ip]) = DayMax
    /\ \A k \in 1..DayMax : clock - admitted[event.ip][k] < DayWindowSec * MsPerSec

(* C6: from an empty ledger, of the POSTs of "1.2.3.4" inside one second   *)
(* the first 10 are admitted and the 11th is answered 429 with tier        *)
(* minute, limit 10 and retryAfter 60.                                     *)
C6_EleventhDenied ==
    clock < MsPerSec =>
       /\ Len(admitted["1.2.3.4"]) = (IF PostsSoFar < 10 THEN PostsSoFar ELSE 10)
       /\ usageStats.rateLimitHits = (IF PostsSoFar < 10 THEN 0 ELSE PostsSoFar - 10)
       /\ (event.kind = "post" /\ PostsSoFar <= 10) => event.status # 429
       /\ (event.kind = "post" /\ PostsSoFar >= 11) =>
             /\ event.status = 429 /\ event.period = "minute"
             /\ event.limit = 10 /\ event.retryAfter = 60

\* The 11th POST of the second has been answered, the clock having moved
\* between the first and the last.
C6_Witness ==
    /\ event.kind = "post" /\ event.ip = "1.2.3.4" /\ event.status = 429
    /\ PostsSoFar = 11
    /\ admitted["1.2.3.4"][1] = 0 /\ clock = MsPerSec - 1

\* The window of the tier that denied the request before the last of ip has
\* elapsed at the last request of ip
DeniedThenWaited(ip) ==
    /\ lastDecision[ip].prevT >= 0
    /\ ~lastDecision[ip].prevAllowed
    /\ lastDecision[ip].t - lastDecision[ip].prevT
          >= Limits[TierOf(Limits, lastDecision[ip].prevPeriod)].window

(* C7 as stated: the request of an identity that follows a denial by tier T *)
(* by at least T's window, with no request of the identity in between, is  *)
(* allowed.                                                                *)
C7_AllowedAfterWindow ==
    \A ip \in IPs : DeniedThenWaited(ip) => lastDecision[ip].allowed

(* C7 amended: the request that follows a denial by tier T by at least T's *)
(* window, with no request of the identity in between, is not denied by T  *)
(* nor by a tier before T; it is allowed when T is the day tier, and       *)
(* otherwise is denied only by a tier after T that is at its limit.        *)
C7_NotDeniedByElapsedTier ==
    \A ip \in IPs :
       DeniedThenWaited(ip) =>
          /\ ~lastDecision[ip].allowed =>
                TierOf(Limits, lastDecision[ip].period)
                   > TierOf(Limits, lastDecision[ip].prevPeriod)
          /\ lastDecision[ip].prevPeriod = Limits[Len(Limits)].period =>
                lastDecision[ip].allowed

\* Denied by the day tier, the identity is admitted a day window later.
C7_Witness ==
    \E ip \in IPs :
       /\ DeniedThenWaited(ip)
       /\ lastDecision[ip].prevPeriod = "day"
       /\ lastDecision[ip].allowed
       /\ Last(admitted[ip]) = lastDecision[ip].t

(* C8: in the state a denial by tier T leaves, the sequence of the identity *)
(* for T holds exactly T's max timestamps; no sequence the limiter has     *)
(* pruned and answered from is longer than its tier's max.                 *)
C8_DeniedTierAtMax ==
    (event.kind = "post" /\ event.status = 429) =>
       /\ Len(SeqOf(requestCounts, event.ip, event.period))
             = Limits[TierOf(Limits, event.period)].max
       /\ event.limit = Limits[TierOf(Limits, event.period)].max
       /\ \A i \in 1..TierOf(Limits, event.period) :
             Len(SeqOf(requestCounts, event.ip, Limits[i].period)) <= Limits[i].max

\* The hour tier denies after the prune dropped older timestamps of the
\* identity from its sequence.
C8_Witness ==
    /\ event.kind = "post" /\ event.status = 429 /\ event.period = "hour"
    /\ Len(SeqOf(requestCounts, event.ip, "hour")) = HourMax
    /\ Len(admitted[event.ip]) > HourMax

(* C9: a denial reports the first tier, in the order minute, hour, day,    *)
(* that is at its limit, with that tier's max, and retryAfter is that      *)
(* tier's window in seconds: 60, 3600, 86400 for the three tiers.          *)
C9_FirstTierReported ==
    /\ retryAfter(RATE_LIMITS, "minute") = 60
    /\ retryAfter(RATE_LIMITS, "hour") = 3600
    /\ retryAfter(RATE_LIMITS, "day") = 86400
    /\ (event.kind = "post" /\ event.status = 429) =>
          /\ TiersAtLimit(event.ip) # {}
          /\ \E m \in {MinOf(TiersAtLimit(event.ip) \cup {Len(Limits)})} :
                /\ event.period = Limits[m].period
                /\ event.limit = Limits[m].max
                /\ event.retryAfter * MsPerSec = Limits[m].window

\* Minute and hour are both at their limit and the denial names minute.
C9_Witness ==
    /\ event.kind = "post" /\ event.status = 429
    /\ {1, 2} \subseteq TiersAtLimit(event.ip)
    /\ event.period = "minute"

(* C10: a denied request adds exactly 1 to rateLimitHits and leaves        *)
(* totalRequests, errors and uniqueIPs alone; a forwarded request that     *)
(* ends with the downstream's answer (200), its error payload (502) or its *)
(* failure (500) adds exactly 1 to totalRequests and leaves rateLimitHits  *)
(* alone, and changes no counter while it awaits the downstream.           *)
C10_Counters ==
    [][ /\ (event'.kind = "post" /\ event'.status = 429) =>
              /\ usageStats'.rateLimitHits = usageStats.rateLimitHits + 1
              /\ usageStats'.totalRequests = usageStats.totalRequests
              /\ usageStats'.errors = usageStats.errors
              /\ usageStats'.uniqueIPs = usageStats.uniqueIPs
        /\ (event'.kind = "resume" /\ event'.status \in {200, 502, 500}) =>
              /\ usageStats'.totalRequests = usageStats.totalRequests + 1
              /\ usageStats'.rateLimitHits = usageStats.rateLimitHits
        /\ ((event'.kind = "post" /\ event'.status = 0)
               \/ (event'.kind = "resume" /\ event'.status = 0)) =>
              usageStats' = usageStats
      ]_vars

\* A request is denied and a forwarded one has ended, in one run.
C10_Witness ==
    /\ event.kind = "resume" /\ event.status = 502
    /\ usageStats.rateLimitHits > 0
    /\ usageStats.totalRequests > 0

\* The requests checkRateLimit admitted so far
AdmittedCount == SumOver([ip \in IPs |-> Len(admitted[ip])], IPs)

\* The step ends a request that checkRateLimit admitted
EndsAdmitted ==
    \/ event'.kind = "post" /\ event'.status \notin {0, 429}
    \/ event'.kind = "resume" /\ event'.status # 0

(* C11: a POST that was admitted calls logUsage exactly once, in the step  *)
(* that ends it, on every path (invalid payload, key not set, error        *)
(* payload, fetch or json failing, success): totalRequests grows by 1,     *)
(* errors grows by 1 unless the answer is 200, the identity is in          *)
(* uniqueIPs afterwards; while it awaits the downstream it updates         *)
(* nothing, so totalRequests counts exactly the admitted requests ended.   *)
C11_OneTelemetryUpdate ==
    [][ /\ EndsAdmitted =>
              /\ usageStats'.totalRequests = usageStats.totalRequests + 1
              /\ usageStats'.errors
                    = usageStats.errors + (IF event'.status = 200 THEN 0 ELSE 1)
              /\ event'.ip \in usageStats'.uniqueIPs
              /\ usageStats'.rateLimitHits = usageStats.rateLimitHits
              /\ Cardinality({k \in 1..Len(event'.steps) : event'.steps[k] = "log"}) = 1
        /\ (event'.kind \in {"post", "resume"} /\ event'.status = 0) =>
              usageStats' = usageStats
        /\ usageStats'.totalRequests + PendingCount' = AdmittedCount'
      ]_vars

\* A request ends on the missing key after another one succeeded.
C11_Witness ==
    /\ event.kind = "post" /\ event.error = "AI service not configured"
    /\ usageStats.totalRequests >= 2
    /\ usageStats.errors < usageStats.totalRequests
    /\ event.ip \in usageStats.uniqueIPs

\* How many times t occurs in seq
Occurrences(seq, t) == Cardinality({k \in 1..Len(seq) : seq[k] = t})

(* C12: the steps of a request after its admission leave requestCounts     *)
(* alone: the settling of the fetch and of the json, with an error, a      *)
(* failure or a payload, change no sequence; the step that admits a        *)
(* request appends its timestamp once to each tier, whatever it answers;   *)
(* each sequence holds the last admitted timestamps of its identity, one   *)
(* for each admitted request.                                              *)
C12_NoRefundNoReconsumption ==
    [][ /\ event'.kind = "resume" => requestCounts' = requestCounts
        /\ (event'.kind = "post" /\ event'.status # 429) =>
              \E pre \in {PreCall(Limits)} :
                 \A p \in Periods :
                    \E s \in {SeqOf(requestCounts', event'.ip, p)} :
                       /\ Len(s) > 0 /\ Last(s) = clock
                       /\ IsSuffix(Front(s), SeqOf(pre, event'.ip, p))
                       /\ Occurrences(s, clock)
                             = Occurrences(SeqOf(pre, event'.ip, p), clock) + 1
        /\ \A ip \in DOMAIN requestCounts' : \A p \in DOMAIN requestCounts'[ip] :
              IsSuffix(requestCounts'[ip][p], admitted'[ip])
      ]_vars

\* The fetch of an admitted request failed and the timestamp of the request
\* is still the last of its three sequences.
C12_Witness ==
    /\ event.kind = "resume" /\ event.status = 500
    /\ \A p \in Periods :
          /\ Len(SeqOf(requestCounts, event.ip, p)) > 0
          /\ Last(SeqOf(requestCounts, event.ip, p)) = Last(admitted[event.ip])

\* The answer a GET of the stats path would get now
Snapshot == getUsageStats(usageStats, requestCounts, clock)

\* The fields of a snapshot that do not derive from the uptime
Counts(s) == <<s.totalRequests, s.uniqueIPs, s.errors, s.rateLimitHits, s.activeIPs>>

(* C13: OPTIONS (200), GET of the stats path (200 with getUsageStats()) and *)
(* any other method but POST (405) leave requestCounts and usageStats      *)
(* unchanged and run no sweep; no step other than those of a POST, the     *)
(* passing of time included, changes totalRequests, uniqueIPs, errors,     *)
(* rateLimitHits or activeIPs of the snapshot, so two snapshots with no    *)
(* POST between them agree on the five.                                    *)
C13_NonPostChangesNothing ==
    [][ /\ event'.kind = "other" =>
              /\ requestCounts' = requestCounts /\ usageStats' = usageStats
              /\ Pos(event'.steps, "sweep") = 0
              /\ event'.steps = <<"options">> => event'.status = 200
              /\ event'.steps = <<"stats">> =>
                    event'.status = 200 /\ event'.stats = Snapshot'
              /\ event'.steps = <<"method">> =>
                    event'.status = 405 /\ event'.error = "Method not allowed"
        /\ event'.kind \in {"other", "tick", "throw"} =>
              Counts(Snapshot') = Counts(Snapshot)
      ]_vars

\* A snapshot taken after requests were logged and denied, while a POST
\* awaits the downstream.
C13_Witness ==
    /\ event.kind = "other" /\ event.steps = <<"stats">>
    /\ event.stats.totalRequests > 0 /\ event.stats.rateLimitHits > 0
    /\ event.stats.activeIPs > 0 /\ event.stats.uniqueIPs > 0
    /\ PendingCount > 0 /\ clock > 0

(* C14: the requestsPerHour of a snapshot is a finite number, also when    *)
(* the snapshot is taken at startTime, whether totalRequests is 0 or not.  *)
C14_RateIsFinite ==
    (event.kind = "other" /\ event.steps = <<"stats">>) =>
       event.stats.requestsPerHour.is = "finite"

(* C15: no step decreases totalRequests, errors or rateLimitHits or takes  *)
(* a member out of uniqueIPs, the steps whose sweep deletes identities     *)
(* from requestCounts included; errors never exceeds totalRequests.        *)
C15_CountersOnlyGrow ==
    [][ /\ usageStats'.totalRequests >= usageStats.totalRequests
        /\ usageStats'.errors >= usageStats.errors
        /\ usageStats'.rateLimitHits >= usageStats.rateLimitHits
        /\ usageStats.uniqueIPs \subseteq usageStats'.uniqueIPs
        /\ usageStats'.errors <= usageStats'.totalRequests
      ]_vars

\* A sweep has deleted from requestCounts an identity that uniqueIPs keeps,
\* and not every logged request was an error.
C15_Witness ==
    /\ event.kind = "post" /\ Pos(event.steps, "sweep") > 0
    /\ \E ip \in usageStats.uniqueIPs : ip \notin DOMAIN requestCounts
    /\ usageStats.errors < usageStats.totalRequests

(* C16: a request in whose handling an exception was raised, at whatever   *)
(* step, is answered 500 with the error "Internal server error"; no        *)
(* exception leaves the handler.                                           *)
C16_ExceptionsAnswered ==
    (event.kind = "throw" \/ Pos(event.steps, "catch") > 0) =>
       event.status = 500 /\ event.error = "Internal server error"

\* The entries of seq not older than window at now, and those less than
\* window old
NotOlder(seq, now, window) == SelectSeq(seq, LAMBDA t : now - t <= window)

Younger(seq, now, window) == SelectSeq(seq, LAMBDA t : now - t < window)

Chronological(seq) == \A j, k \in 1..Len(seq) : j < k => seq[j] <= seq[k]

\* The tiers whose sequence the checkRateLimit of the step pruned
PrunedTiers ==
    IF event'.status = 429 THEN 1..TierOf(Limits, event'.period) ELSE 1..Len(Limits)

\* The sequence of tier i of the requesting identity as the prune left it
\* (the step appends the timestamp of an admitted request after the prune)
AsPruned(i) ==
    IF event'.status = 429
       THEN SeqOf(requestCounts', event'.ip, Limits[i].period)
       ELSE Front(SeqOf(requestCounts', event'.ip, Limits[i].period))

(* C17 as stated: a prune of a tier's sequence, by checkRateLimit or by    *)
(* the sweep, keeps exactly the entries not older than the tier's own      *)
(* window, the entry exactly one window old among them, in chronological   *)
(* order.                                                                  *)
C17_KeepsClosedWindow ==
    [][ event'.kind = "post" =>
          /\ \A i \in PrunedTiers :
                AsPruned(i) = NotOlder(SeqOf(requestCounts, event'.ip, Limits[i].period),
                                       clock, Limits[i].window)
          /\ Pos(event'.steps, "sweep") > 0 =>
                \A x \in DOMAIN requestCounts' \ {event'.ip} : \A i \in 1..Len(Limits) :
                   requestCounts'[x][Limits[i].period]
                      = NotOlder(requestCounts[x][Limits[i].period], clock, Limits[i].window)
          /\ \A x \in DOMAIN requestCounts' : \A p \in DOMAIN requestCounts'[x] :
                Chronological(requestCounts'[x][p])
      ]_vars

(* C17 amended: the prune of checkRateLimit keeps exactly the entries less *)
(* than the tier's window old (an entry exactly one window old is          *)
(* dropped); the sweep keeps, in every sequence of every tier, exactly the *)
(* entries less than the longest window old; what a prune leaves is in     *)
(* chronological order and not later than now.                             *)
C17_KeepsYoungerThanWindow ==
    [][ event'.kind = "post" =>
          /\ \A i \in PrunedTiers :
                AsPruned(i) = Younger(SeqOf(requestCounts, event'.ip, Limits[i].period),
                                      clock, Limits[i].window)
          /\ \A i \in (1..Len(Limits)) \ PrunedTiers :
                SeqOf(requestCounts', event'.ip, Limits[i].period)
                   = Younger(SeqOf(requestCounts, event'.ip, Limits[i].period), clock,
                             IF Pos(event'.steps, "sweep") > 0
                                THEN Limits[Len(Limits)].window
                                ELSE clock + 1)
          /\ \A x \in DOMAIN requestCounts \ {event'.ip} : \A p \in Periods :
                SeqOf(requestCounts', x, p)
                   = Younger(requestCounts[x][p], clock,
                             IF Pos(event'.steps, "sweep") > 0
                                THEN Limits[Len(Limits)].window
                                ELSE clock + 1)
          /\ \A x \in DOMAIN requestCounts' : \A p \in DOMAIN requestCounts'[x] :
                /\ Chronological(requestCounts'[x][p])
                /\ \A k \in 1..Len(requestCounts'[x][p]) : requestCounts'[x][p][k] <= clock
      ]_vars

\* The prune of checkRateLimit has dropped an entry exactly one minute
\* window old, and the sweep of the same step has left in the minute
\* sequence of another identity an entry older than the minute window.
C17_Witness ==
    /\ event.kind = "post" /\ Pos(event.steps, "sweep") > 0
    /\ \E k \in 1..Len(admitted[event.ip]) :
          admitted[event.ip][k] = clock - Limits[1].window
    /\ \A k \in 1..Len(SeqOf(requestCounts, event.ip, "minute")) :
          requestCounts[event.ip]["minute"][k] # clock - Limits[1].window
    /\ \E x \in DOMAIN requestCounts \ {event.ip} :
          \E k \in 1..Len(requestCounts[x]["minute"]) :
             clock - requestCounts[x]["minute"][k] >= Limits[1].window

(* C18: every run of N consecutive POSTs that reach checkRateLimit,        *)
(* admitted or denied, holds exactly one sweep.  The first POST of a       *)
(* process sweeps (totalRequests is 0), so this says: a POST sweeps        *)
(* exactly when the number of POSTs that reached checkRateLimit before it  *)
(* is a multiple of N.                                                     *)
C18_SweepEveryNthCall ==
    [][ event'.kind = "post" =>
          (Pos(event'.steps, "sweep") > 0 <=> PostsSoFar % CleanupEvery = 0)
      ]_vars

\* Identity x has in counts a timestamp inside the window of some tier at now
InSomeWindow(counts, x, now) ==
    \E i \in 1..Len(Limits) :
       \E k \in 1..Len(SeqOf(counts, x, Limits[i].period)) :
          now - counts[x][Limits[i].period][k] < Limits[i].window

(* C19: a sweep leaves in requestCounts exactly the identities that have a *)
(* timestamp inside the window of at least one tier: the others are        *)
(* deleted, their arrays being filtered before they are tested for         *)
(* emptiness.  (The checkRateLimit that follows the sweep in the same step *)
(* enters the requesting identity anew: if the sweep deleted it, its       *)
(* sequences then hold the timestamp of the request and nothing else.)     *)
C19_SweepKeepsActive ==
    [][ (event'.kind = "post" /\ Pos(event'.steps, "sweep") > 0) =>
          /\ DOMAIN requestCounts' \ {event'.ip}
                = {x \in DOMAIN requestCounts \ {event'.ip} :
                      InSomeWindow(requestCounts, x, clock)}
          /\ (event'.ip \in DOMAIN requestCounts
                 /\ ~InSomeWindow(requestCounts, event'.ip, clock)) =>
                \A p \in Periods : SeqOf(requestCounts', event'.ip, p) = <<clock>>
          /\ (event'.ip \in DOMAIN requestCounts
                 /\ InSomeWindow(requestCounts, event'.ip, clock)) =>
                SeqOf(requestCounts', event'.ip, "day") # <<clock>>
      ]_vars

\* One sweep has deleted both identities, the requesting one, entered anew
\* by checkRateLimit, and the other one.
C19_Witness ==
    /\ event.kind = "post" /\ Pos(event.steps, "sweep") > 0
    /\ DOMAIN requestCounts = {event.ip}
    /\ usageStats.uniqueIPs = IPs
    /\ Len(admitted[event.ip]) >= 2
    /\ \A p \in Periods : SeqOf(requestCounts, event.ip, p) = <<clock>>

(* C20: the sweeps change no decision: each POST gets from checkRateLimit  *)
(* the answer (allowed, or denied with the same period and limit) that the *)
(* same calls get when no sweep ever runs; at every moment the swept and   *)
(* the unswept requestCounts hold, for every identity and tier, the same   *)
(* timestamps inside the tier's window.                                    *)
C20_SweepTransparent ==
    [][ /\ event'.kind = "post" =>
              \E ref \in {checkRateLimit(Limits, unswept, event'.ip, clock)} :
                 /\ ref.allowed = (event'.status # 429)
                 /\ ref.period = event'.period
                 /\ ref.limit = event'.limit
        /\ \A x \in IPs : \A i \in 1..Len(Limits) :
              Younger(SeqOf(requestCounts', x, Limits[i].period), clock', Limits[i].window)
                 = Younger(SeqOf(unswept', x, Limits[i].period), clock', Limits[i].window)
      ]_vars

\* A request is denied after a sweep has deleted an identity that the
\* unswept requestCounts still holds.
C20_Witness ==
    /\ event.kind = "post" /\ event.status = 429
    /\ Pos(event.steps, "sweep") > 0
    /\ \E x \in DOMAIN unswept : x \notin DOMAIN requestCounts

\* Every recorded timestamp of identity x is older than the longest window
Stale(x) ==
    /\ x \in DOMAIN requestCounts
    /\ \A p \in DOMAIN requestCounts[x] : \A k \in 1..Len(requestCounts[x][p]) :
          clock - requestCounts[x][p][k] > maxWindow(Forever.limits)

(* C21: if POST requests keep arriving (again and again the step just      *)
(* taken is a POST, of any identity, admitted or denied, other requests    *)
(* awaiting the downstream or not), then every identity whose recorded     *)
(* timestamps are all older than the longest window is eventually removed  *)
(* from requestCounts, unless it sends a further request.                  *)
C21_EventuallyReclaimed ==
    ([]<>(event.kind = "post")) =>
       \A x \in IPs :
          Stale(x) ~> (x \notin DOMAIN requestCounts
                         \/ (event.kind = "post" /\ event.ip = x))

====
